---- MODULE Spec2Model ----
(***************************************************************************)
(* Export_images_from_sentinel1: the sampling loop of                      *)
(* download_dataset_s1_earth.py and the routines of utils.py.              *)
(*                                                                         *)
(* Earth Engine objects are modelled by what the platform answers to the   *)
(* queries the code makes on them; an answer may be an error.  Decibel     *)
(* values are kept in tenths of a dB (-20.0 is -200).                      *)
(***************************************************************************)
EXTENDS Integers, Sequences, FiniteSets, TLC

VARIABLES
  pc,                   \* position of the code under execution
  exc,                  \* the exception that ended the run, or "none"
  current_image,        \* download_dataset_s1_earth.py:48
  ids,                  \* download_dataset_s1_earth.py:47
  images_dict,          \* download_dataset_s1_earth.py:51
  image_id,             \* download_dataset_s1_earth.py:53
  key_i,                \* index into export_params of the for loop, line 65
  task,                 \* the export task export_image is waiting for
  exports,              \* every task started so far, in order (history)
  stdout,               \* lines printed since the loop condition was last
                        \* evaluated or an export last started
  failed_tasks,         \* tasks of the batch in progress that ended FAILED or
                        \* CANCELLED (history)
  sample,               \* the random draws of get_random_collections
  args,                 \* arguments of the routine under execution
  ret,                  \* result of the routine under execution
  dimensions,           \* utils.py:65
  roi_expansion_factor, \* utils.py:66
  roi,                  \* utils.py:70
  sentinel_1_collection \* utils.py:71

vars == <<pc, exc, current_image, ids, images_dict, image_id, key_i, task,
          exports, stdout, failed_tasks, sample, args, ret, dimensions,
          roi_expansion_factor, roi, sentinel_1_collection>>

loopVars  == <<current_image, ids, images_dict, image_id, key_i>>
taskVars  == <<task, exports, stdout, failed_tasks>>
fetchVars == <<dimensions, roi_expansion_factor, roi, sentinel_1_collection>>

----------------------------------------------------------------------------
(* Values *)

None == [type |-> "NoneType"]

\* A local name that no assignment has bound yet.
Unbound == [type |-> "unbound"]

\* An answer of the platform to a getInfo() request.
Number(v) == [kind |-> "number", v |-> v]
Null      == [kind |-> "null", v |-> 0]
EEError   == [kind |-> "error", v |-> 0]

\* ee.Image: the region it is clipped to and the answers to the two queries
\* the program makes on images (system:index, region mean of band VH).
Image(pol, stat, region, index, vh_mean) ==
  [type |-> "Image", pol |-> pol, stat |-> stat, roi |-> region,
   index |-> index, vh_mean |-> vh_mean]

\* ee.ImageCollection: its polarisation and the answer to size().getInfo().
Collection(pol, size) == [type |-> "ImageCollection", pol |-> pol, size |-> size]

----------------------------------------------------------------------------
(* Bounds of the model *)

MaxSize == 14           \* collection sizes 0..MaxSize
NumIds  == 3            \* distinct system:index values 1..NumIds

\* Program constants
MinCount     == 9       \* utils.py:108
MaxCount     == 12      \* utils.py:108
WaterTenths  == -200    \* utils.py:113, -20.0 dB

SizeAnswers == {Number(c) : c \in 0..MaxSize} \cup {EEError}
MeanTenths  == {-250, -201, -200, -199, -150, 0}
MeanAnswers == {Number(m) : m \in MeanTenths} \cup {Null, EEError}

----------------------------------------------------------------------------
(* utils.py: validate_image *)

\* Faulty variant: the VH collection is not tested.
NoCollections_Mut(collection_vv, collection_vh) == collection_vv = None

\* line 103
NoCollections(collection_vv, collection_vh) ==
  collection_vv = None \/ collection_vh = None

\* Faulty variant: a count of 9 is rejected.
NotEnoughImages_Mut(collection_vv_size) ==
  collection_vv_size <= MinCount \/ collection_vv_size > MaxCount

\* line 108
NotEnoughImages(collection_vv_size) ==
  collection_vv_size < MinCount \/ collection_vv_size > MaxCount

\* Faulty variant: a mean of exactly -20.0 is rejected.
InTheWater_Mut(vh_mean_value) == vh_mean_value <= WaterTenths

\* line 113
InTheWater(vh_mean_value) == vh_mean_value < WaterTenths

Outcome(r, e, queries, printed) ==
  [ret |-> r, exc |-> e, queries |-> queries, printed |-> printed]

\* The call validate_image(first_vh, collection_vv, collection_vh, average_vh):
\* what it returns ("True", "False", or "-" when it raises), the exception it
\* raises, the platform requests it issues and the lines it prints.
validate_image(first_vh, collection_vv, collection_vh, average_vh) ==
  IF NoCollections(collection_vv, collection_vh)
  THEN Outcome("False", "none", <<>>, <<"There are no collections">>)
  ELSE IF collection_vv.size.kind = "error"
  THEN Outcome("-", "EEException", <<"size">>, <<>>)
  ELSE IF NotEnoughImages(collection_vv.size.v)
  THEN Outcome("False", "none", <<"size">>,
               <<"There are not enough images in the collection">>)
  ELSE IF average_vh = None \/ first_vh = None
  THEN Outcome("-", "AttributeError", <<"size">>, <<>>)
  ELSE IF average_vh.vh_mean.kind = "error"
  THEN Outcome("-", "EEException", <<"size", "reduceRegion">>, <<>>)
  ELSE IF average_vh.vh_mean.kind = "null"
  THEN Outcome("-", "TypeError", <<"size", "reduceRegion">>, <<>>)
  ELSE IF InTheWater(average_vh.vh_mean.v)
  THEN Outcome("False", "none", <<"size", "reduceRegion">>,
               <<"The collection is in the water">>)
  ELSE Outcome("True", "none", <<"size", "reduceRegion">>, <<>>)

----------------------------------------------------------------------------
(* validate_image called on every combination of arguments *)

DefaultDim == 512       \* utils.py:39, dim: int = 512

\* line 70: buffer(distance=(dim + roi_expansion_factor) * 10 / 2), in metres
\* Faulty variant: the buffer does not grow with the expansion factor.
BufferDistance_Mut(dim, expansion) == (dim * 10) \div 2

\* line 70: the distance argument of buffer()
BufferDistance(dim, expansion) == ((dim + expansion) * 10) \div 2

DefaultRoi == BufferDistance(DefaultDim, 0)

FirstVHs      == {None, Image("VH", "first", DefaultRoi, Null, Null)}
CollectionVVs == {None} \cup {Collection("VV", s) : s \in SizeAnswers}
CollectionVHs == {None} \cup {Collection("VH", s) : s \in {Number(0), Number(10), EEError}}
AverageVHs    == {None} \cup {Image("VH", "mean", DefaultRoi, Null, m) : m \in MeanAnswers}

NoArgs == [fn |-> "none"]
NoRet  == [ret |-> "-", exc |-> "none", queries |-> <<>>, printed |-> <<>>]
NoTask == [state |-> "NONE"]

Idle ==
  /\ exc = "none"
  /\ current_image = 0
  /\ ids = {}
  /\ images_dict = None
  /\ image_id = 0
  /\ key_i = 0
  /\ task = NoTask
  /\ exports = <<>>
  /\ stdout = <<>>
  /\ failed_tasks = 0
  /\ sample = None
  /\ ret = NoRet
  /\ dimensions = 0
  /\ roi_expansion_factor = 0
  /\ roi = 0
  /\ sentinel_1_collection = Unbound

InitValidate ==
  /\ Idle
  /\ pc = "validate_image"
  /\ \E fv \in FirstVHs, cvv \in CollectionVVs, cvh \in CollectionVHs,
        av \in AverageVHs :
       args = [fn |-> "validate_image", first_vh |-> fv, collection_vv |-> cvv,
               collection_vh |-> cvh, average_vh |-> av]

CallValidate ==
  /\ pc = "validate_image"
  /\ ret' = validate_image(args.first_vh, args.collection_vv,
                           args.collection_vh, args.average_vh)
  /\ pc' = "returned"
  /\ UNCHANGED <<exc, loopVars, taskVars, sample, args, fetchVars>>

NextValidate == CallValidate

SpecValidate == InitValidate /\ [][NextValidate]_vars

----------------------------------------------------------------------------
(* utils.py: get_sar_first_mean_median_collection *)

MaxDim       == 3       \* the dim argument ranges over 0..MaxDim
MaxExpansion == 3       \* the model follows the growth loop this many rounds

\* What first().clip(roi).getInfo()['bands'][0]['dimensions'][0] answers.
DimAnswers == 0..(MaxDim + 1)

\* What line 82 raises when it fails: a platform or network error (also the
\* null first image of an empty collection), an image without bands, band
\* information without dimensions.
QueryFailures == {"EEException", "IndexError", "KeyError"}

\* line 86: except Exception
ExceptionClasses ==
  {"EEException", "IndexError", "KeyError", "UnboundLocalError", "TypeError",
   "AttributeError"}

\* Faulty variant: except ee.EEException.
Catches_Mut(e) == e = "EEException"

Catches(e) == e \in ExceptionClasses

\* Answers the platform gives on the objects of a fetched bundle.
BundleSizes   == {Number(8), Number(9), Number(12), Number(13), EEError}
IndexAnswers  == {Number(i) : i \in 1..NumIds} \cup {EEError}
BundleMeans   == {Number(-201), Number(-200), Null, EEError}

\* line 85: the four values of the return statement.  index is what the first
\* image answers for system:index, vh_mean what the mean image answers for the
\* region mean of band VH.
FetchResult(region, collection, index, vh_mean) ==
  << Image(collection.pol, "first",  region, index, Null),
     Image(collection.pol, "mean",   region, Null, vh_mean),
     Image(collection.pol, "median", region, Null, Null),
     collection >>

\* line 87
FourNones == <<None, None, None, None>>

\* Faulty variant: dimensions starts at 0.
FetchEnter_Mut ==
  /\ pc = "fetch_enter"
  /\ dimensions' = 0
  /\ roi_expansion_factor' = 0
  /\ pc' = "fetch_while"
  /\ UNCHANGED <<exc, loopVars, taskVars, sample, args, ret, roi,
                 sentinel_1_collection>>

\* lines 57-66
FetchEnter ==
  /\ pc = "fetch_enter"
  /\ dimensions' = 1
  /\ roi_expansion_factor' = 0
  /\ pc' = "fetch_while"
  /\ UNCHANGED <<exc, loopVars, taskVars, sample, args, ret, roi,
                 sentinel_1_collection>>

\* Faulty variant: the loop gives up after two rounds.
FetchWhile_Mut ==
  /\ pc = "fetch_while"
  /\ pc' = IF dimensions < args.dim /\ roi_expansion_factor < 2
           THEN "fetch_body" ELSE "fetch_return"
  /\ UNCHANGED <<exc, loopVars, taskVars, sample, args, ret, fetchVars>>

\* line 69
FetchWhile ==
  /\ pc = "fetch_while"
  /\ pc' = IF dimensions < args.dim THEN "fetch_body" ELSE "fetch_return"
  /\ UNCHANGED <<exc, loopVars, taskVars, sample, args, ret, fetchVars>>

\* lines 70-83, the platform answering the dimension request
FetchBody ==
  /\ pc = "fetch_body"
  /\ roi_expansion_factor < MaxExpansion
  /\ \E d \in DimAnswers :
       /\ roi' = BufferDistance(args.dim, roi_expansion_factor)
       /\ \E size \in BundleSizes :
            sentinel_1_collection' = Collection(args.polarization, size)
       /\ dimensions' = d
       /\ roi_expansion_factor' = roi_expansion_factor + 1
       /\ pc' = "fetch_while"
  /\ UNCHANGED <<exc, loopVars, taskVars, sample, args, ret>>

\* lines 70-82, the dimension request failing
FetchBodyRaise ==
  /\ pc = "fetch_body"
  /\ roi_expansion_factor < MaxExpansion
  /\ \E e \in QueryFailures :
       /\ roi' = BufferDistance(args.dim, roi_expansion_factor)
       /\ sentinel_1_collection' = Collection(args.polarization, Number(10))
       /\ exc' = e
       /\ pc' = "fetch_except"
  /\ UNCHANGED <<loopVars, taskVars, sample, args, ret, dimensions,
                 roi_expansion_factor>>

\* line 85
FetchReturn ==
  /\ pc = "fetch_return"
  /\ IF sentinel_1_collection = Unbound
     THEN /\ exc' = "UnboundLocalError"
          /\ pc' = "fetch_except"
          /\ ret' = ret
     ELSE /\ \E index \in IF args.polarization = "VV" THEN IndexAnswers ELSE {Null},
                vh_mean \in IF args.polarization = "VH" THEN BundleMeans ELSE {Null} :
               ret' = FetchResult(roi, sentinel_1_collection, index, vh_mean)
          /\ pc' = "returned"
          /\ exc' = exc
  /\ UNCHANGED <<loopVars, taskVars, sample, args, fetchVars>>

\* lines 86-87
FetchExcept ==
  /\ pc = "fetch_except"
  /\ IF Catches(exc)
     THEN /\ ret' = FourNones
          /\ exc' = "none"
          /\ pc' = "returned"
     ELSE /\ pc' = "raised"
          /\ UNCHANGED <<ret, exc>>
  /\ UNCHANGED <<loopVars, taskVars, sample, args, fetchVars>>

\* The routine called with arguments of the documented types.
InitFetch ==
  /\ Idle
  /\ pc = "fetch_enter"
  /\ \E pol \in {"VV", "VH"}, d \in 0..MaxDim, lat \in {-89, 0}, lon \in {0, 179} :
       args = [fn |-> "get_sar_first_mean_median_collection", ee |-> "ee",
               start |-> "2017-1-1", end |-> "2017-7-1", latitude |-> lat,
               longitude |-> lon, polarization |-> pol,
               direction |-> "DESCENDING", dim |-> d]

NextFetch ==
  \/ FetchEnter
  \/ FetchWhile
  \/ FetchBody
  \/ FetchBodyRaise
  \/ FetchReturn
  \/ FetchExcept

SpecFetch == InitFetch /\ [][NextFetch]_vars

----------------------------------------------------------------------------
(* utils.py: get_random_collections *)

\* line 39: the parameters of get_sar_first_mean_median_collection in order,
\* and the defaults of those that have one
FetcherParams ==
  <<"ee", "start", "end", "latitude", "longitude", "polarization",
    "direction", "dim">>

FetcherDefaults ==
  [polarization |-> "VV", direction |-> "DESCENDING", dim |-> DefaultDim]

\* Python's binding of the arguments of a call to the parameters of the
\* function: positional arguments in order, then keywords, then defaults; a
\* parameter left without a value is a TypeError raised at the call.
Bind(params, defaults, positional, keywords) ==
  LET names   == {params[i] : i \in 1..Len(params)}
      byPos   == {params[i] : i \in 1..Len(params)} \cap
                 {params[i] : i \in 1..Len(positional)}
      missing == names \ (byPos \cup DOMAIN keywords \cup DOMAIN defaults)
      Index(n) == CHOOSE i \in 1..Len(params) : params[i] = n
  IN  IF \/ Len(positional) > Len(params)
         \/ (DOMAIN keywords) \ names # {}
         \/ (DOMAIN keywords) \cap byPos # {}
         \/ missing # {}
      THEN [ok |-> FALSE, exc |-> "TypeError", missing |-> missing]
      ELSE [ok |-> TRUE, exc |-> "none", missing |-> {},
            bound |-> [n \in names |->
                         IF n \in byPos THEN positional[Index(n)]
                         ELSE IF n \in DOMAIN keywords THEN keywords[n]
                         ELSE defaults[n]]]

\* The digits "20" followed by the decimal digits of year (lines 132-133).
Concat20(year) ==
  IF year < 10 THEN 200 + year
  ELSE IF year < 100 THEN 2000 + year
  ELSE 20000 + year

\* f'20{year}-{month}-{day}': the three numbers the string spells.
FormatDate(year, month, day) ==
  [year |-> Concat20(year), month |-> month, day |-> day]

\* lines 127-133
Latitudes  == {-89, 0, 89}
Longitudes == {-179, 179}
Draws ==
  [latitude : Latitudes, longitude : Longitudes, day : 1..28, month : 1..6,
   year : 17..23]

\* line 132
start_date(d) == FormatDate(d.year, d.month, d.day)

\* Faulty variant: the window is seven months long.
end_date_Mut(d) == FormatDate(d.year, d.month + 7, d.day)

\* line 133
end_date(d) == FormatDate(d.year, d.month + 6, d.day)

\* line 135 and line 136: the two calls of the fetcher as they are written
FetchCall(d, pol) ==
  Bind(FetcherParams, FetcherDefaults,
       <<start_date(d), end_date(d), d.latitude, d.longitude>>,
       [polarization |-> pol])

\* lines 138-147
BundleDict(vv, vh) ==
  [type |-> "dict",
   first_vv |-> vv[1], mean_vv |-> vv[2], median_vv |-> vv[3],
   collection_vv |-> vv[4],
   first_vh |-> vh[1], mean_vh |-> vh[2], median_vh |-> vh[3],
   collection_vh |-> vh[4]]

\* What a call of the fetcher for one polarisation can return (line 85, 87).
FetchReturns(pol) ==
  {FourNones} \cup
  {FetchResult(DefaultRoi, Collection(pol, size), index, vh_mean) :
     size \in (IF pol = "VV" THEN BundleSizes ELSE {Number(10)}),
     index \in (IF pol = "VV" THEN IndexAnswers ELSE {Null}),
     vh_mean \in (IF pol = "VH" THEN BundleMeans ELSE {Null})}

\* The call get_random_collections() with draws d: the calls of the fetcher
\* whose body is entered, and the exception that ends the routine ("none" when
\* it reaches its return statement).
get_random_collections(d) ==
  IF ~FetchCall(d, "VV").ok
  THEN [exc |-> FetchCall(d, "VV").exc, fetches |-> <<>>]
  ELSE IF ~FetchCall(d, "VH").ok
  THEN [exc |-> FetchCall(d, "VH").exc,
        fetches |-> <<FetchCall(d, "VV").bound>>]
  ELSE [exc |-> "none",
        fetches |-> <<FetchCall(d, "VV").bound, FetchCall(d, "VH").bound>>]

----------------------------------------------------------------------------
(* download_dataset_s1_earth.py: the sampling loop *)

number_images == 2      \* line 46 sets 2100; the model runs a shorter target

\* Faulty variant: the two mean images change folders.
export_params_Mut ==
  << <<"first_vv", "SAR VV">>,
     <<"first_vh", "SAR VH">>,
     <<"mean_vh", "GT MEAN VV">>,
     <<"mean_vv", "GT MEAN VH">>,
     <<"median_vv", "GT MEDIAN VV">>,
     <<"median_vh", "GT MEDIAN VH">> >>

\* Faulty variant: the VH mean goes to the folder of the VV mean.
export_params_SameFolder ==
  << <<"first_vv", "SAR VV">>,
     <<"first_vh", "SAR VH">>,
     <<"mean_vv", "GT MEAN VV">>,
     <<"mean_vh", "GT MEAN VV">>,
     <<"median_vv", "GT MEDIAN VV">>,
     <<"median_vh", "GT MEDIAN VH">> >>

\* lines 56-63
export_params ==
  << <<"first_vv", "SAR VV">>,
     <<"first_vh", "SAR VH">>,
     <<"mean_vv", "GT MEAN VV">>,
     <<"mean_vh", "GT MEAN VH">>,
     <<"median_vv", "GT MEDIAN VV">>,
     <<"median_vh", "GT MEDIAN VH">> >>

\* str(n): the decimal digits of n
RECURSIVE str(_)
str(n) == IF n < 10 THEN <<n>> ELSE str(n \div 10) \o <<n % 10>>

\* Faulty variant: the membership test is dropped.
NotSeen_Mut(id, seen) == TRUE

\* line 55
NotSeen(id, seen) == id \notin seen

\* Faulty variant: the loop stops one image early.
LoopWhile_Mut ==
  /\ pc = "while"
  /\ pc' = IF current_image + 1 < number_images
           THEN "get_random_collections" ELSE "done"
  /\ stdout' = <<>>
  /\ UNCHANGED <<exc, loopVars, task, exports, failed_tasks, sample, args,
                 ret, fetchVars>>

\* line 50
LoopWhile ==
  /\ pc = "while"
  /\ pc' = IF current_image < number_images
           THEN "get_random_collections" ELSE "done"
  /\ stdout' = <<>>
  /\ UNCHANGED <<exc, loopVars, task, exports, failed_tasks, sample, args,
                 ret, fetchVars>>

\* line 51, the program as written
GetRandomCollections ==
  /\ pc = "get_random_collections"
  /\ \E d \in Draws :
       LET r == get_random_collections(d) IN
         /\ sample' = d
         /\ ret' = r
         /\ IF r.exc # "none"
            THEN /\ exc' = r.exc
                 /\ pc' = "raised"
                 /\ images_dict' = images_dict
            ELSE /\ \E vv \in FetchReturns("VV"), vh \in FetchReturns("VH") :
                      images_dict' = BundleDict(vv, vh)
                 /\ pc' = "validate"
                 /\ exc' = exc
  /\ UNCHANGED <<current_image, ids, image_id, key_i, taskVars, args, fetchVars>>

\* line 51, get_random_collections returning the dictionary of lines 138-147
\* built from two results of the fetcher
GetRandomCollectionsReturns ==
  /\ pc = "get_random_collections"
  /\ \E vv \in FetchReturns("VV"), vh \in FetchReturns("VH") :
       images_dict' = BundleDict(vv, vh)
  /\ pc' = "validate"
  /\ UNCHANGED <<exc, current_image, ids, image_id, key_i, taskVars, sample,
                 args, ret, fetchVars>>

\* Faulty variant: a rejected bundle ends the loop.
AfterValidate_Mut(valid) == IF valid = "True" THEN "read_id" ELSE "done"

\* line 52: the if statement, whose body is all the rest of the loop body
AfterValidate(valid) == IF valid = "True" THEN "read_id" ELSE "while"

\* Faulty variant: an exception of validate_image is taken as a rejection and
\* the loop samples again.
LoopValidate_Mut ==
  /\ pc = "validate"
  /\ LET r == validate_image(images_dict.first_vh, images_dict.collection_vv,
                             images_dict.collection_vh, images_dict.mean_vh)
     IN  /\ stdout' = stdout \o r.printed
         /\ pc' = IF r.exc # "none" THEN "while" ELSE AfterValidate(r.ret)
  /\ UNCHANGED <<exc, loopVars, task, exports, failed_tasks, sample, args,
                 ret, fetchVars>>

\* line 52
LoopValidate ==
  /\ pc = "validate"
  /\ LET r == validate_image(images_dict.first_vh, images_dict.collection_vv,
                             images_dict.collection_vh, images_dict.mean_vh)
     IN  /\ stdout' = stdout \o r.printed
         /\ IF r.exc # "none"
            THEN exc' = r.exc /\ pc' = "raised"
            ELSE exc' = exc /\ pc' = AfterValidate(r.ret)
  /\ UNCHANGED <<loopVars, task, exports, failed_tasks, sample, args, ret,
                 fetchVars>>

\* line 53
LoopReadId ==
  /\ pc = "read_id"
  /\ IF images_dict.first_vv.index.kind = "error"
     THEN exc' = "EEException" /\ pc' = "raised" /\ image_id' = image_id
     ELSE image_id' = images_dict.first_vv.index.v /\ pc' = "check_id" /\ exc' = exc
  /\ UNCHANGED <<current_image, ids, images_dict, key_i, taskVars, sample,
                 args, ret, fetchVars>>

\* lines 55-65
LoopCheckId ==
  /\ pc = "check_id"
  /\ IF NotSeen(image_id, ids)
     THEN key_i' = 1 /\ failed_tasks' = 0 /\ pc' = "for"
     ELSE pc' = "while" /\ UNCHANGED <<key_i, failed_tasks>>
  /\ UNCHANGED <<exc, current_image, ids, images_dict, image_id, task,
                 exports, stdout, sample, args, ret, fetchVars>>

\* line 65
LoopFor ==
  /\ pc = "for"
  /\ pc' = IF key_i <= Len(export_params) THEN "export_image" ELSE "add"
  /\ UNCHANGED <<exc, loopVars, taskVars, sample, args, ret, fetchVars>>

\* Faulty variant: the identifier is not recorded.
LoopAdd_Mut ==
  /\ pc = "add"
  /\ stdout' = Append(stdout, <<"Image #", str(current_image + 1),
                                " saved successfully!">>)
  /\ current_image' = current_image + 1
  /\ pc' = "while"
  /\ UNCHANGED <<exc, ids, images_dict, image_id, key_i, task, exports,
                 failed_tasks, sample, args, ret, fetchVars>>

\* lines 68-70
LoopAdd ==
  /\ pc = "add"
  /\ ids' = ids \cup {image_id}
  /\ stdout' = Append(stdout, <<"Image #", str(current_image + 1),
                                " saved successfully!">>)
  /\ current_image' = current_image + 1
  /\ pc' = "while"
  /\ UNCHANGED <<exc, images_dict, image_id, key_i, task, exports,
                 failed_tasks, sample, args, ret, fetchVars>>

----------------------------------------------------------------------------
(* utils.py: export_image and monitoring_task *)

\* Faulty variant: a running task no longer counts as active.
ActiveStates_Mut == {"READY"}

ActiveStates   == {"READY", "RUNNING"}
TerminalStates == {"COMPLETED", "FAILED", "CANCELLED"}

\* task.status() of a task in state st
TaskStatus(st) ==
  [state |-> st,
   error_message |-> IF st = "FAILED" THEN "Export failed"
                     ELSE IF st = "CANCELLED" THEN "Cancelled."
                     ELSE "None"]

\* line 160
IsFailure(state) == state \in {"FAILED", "CANCELLED"}

\* Faulty variant: a failed or cancelled task is raised as an error.
ExportResult_Mut(status) ==
  IF status.state \in {"FAILED", "CANCELLED"}
  THEN [exc |-> "EEException", ret |-> status]
  ELSE [exc |-> "none", ret |-> status]

\* line 186: export_image hands back the status, whatever state it shows
ExportResult(status) == [exc |-> "none", ret |-> status]

\* lines 178-184 with the arguments of line 66
ExportStart ==
  /\ pc = "export_image"
  /\ LET key    == export_params[key_i][1]
         folder == export_params[key_i][2]
         image  == images_dict[key]
     IN  exports' = Append(exports,
                      [key |-> key, folder |-> folder,
                       file_name |-> str(current_image + 1),
                       pol |-> image.pol, stat |-> image.stat,
                       id |-> image_id])
  /\ task' = TaskStatus("READY")
  /\ stdout' = <<>>
  /\ pc' = "mon_active"
  /\ UNCHANGED <<exc, loopVars, failed_tasks, sample, args, ret, fetchVars>>

\* line 157
MonitorActive ==
  /\ pc = "mon_active"
  /\ pc' = IF task.state \in ActiveStates THEN "mon_status" ELSE "export_return"
  /\ UNCHANGED <<exc, loopVars, taskVars, sample, args, ret, fetchVars>>

\* lines 158-162
MonitorStatus ==
  /\ pc = "mon_status"
  /\ IF IsFailure(task.state)
     THEN /\ stdout' = Append(stdout, <<"Task failed: ", task.error_message>>)
          /\ pc' = "export_return"
     ELSE /\ stdout' = stdout
          /\ pc' = "mon_sleep"
  /\ UNCHANGED <<exc, loopVars, task, exports, failed_tasks, sample, args,
                 ret, fetchVars>>

\* line 163
MonitorSleep ==
  /\ pc = "mon_sleep"
  /\ pc' = "mon_active"
  /\ UNCHANGED <<exc, loopVars, taskVars, sample, args, ret, fetchVars>>

\* line 186, and the next round of the for loop of line 65
ExportReturn ==
  /\ pc = "export_return"
  /\ ret' = ExportResult(task)
  /\ failed_tasks' = failed_tasks + (IF IsFailure(task.state) THEN 1 ELSE 0)
  /\ IF ExportResult(task).exc # "none"
     THEN exc' = ExportResult(task).exc /\ pc' = "raised" /\ key_i' = key_i
     ELSE exc' = exc /\ pc' = "for" /\ key_i' = key_i + 1
  /\ UNCHANGED <<current_image, ids, images_dict, image_id, task, exports,
                 stdout, sample, args, fetchVars>>

\* A request to the export service failing (task.start, task.active,
\* task.status).
ExportRaise ==
  /\ pc \in {"export_image", "mon_active", "mon_status", "export_return"}
  /\ exc' = "EEException"
  /\ pc' = "raised"
  /\ UNCHANGED <<loopVars, taskVars, sample, args, ret, fetchVars>>

\* The export service moving the task on while the program waits.
TaskAdvance ==
  /\ pc \in {"mon_active", "mon_status", "mon_sleep", "export_return"}
  /\ \E st \in {"RUNNING", "COMPLETED", "FAILED", "CANCELLED"} :
       /\ \/ task.state = "READY" /\ st \in {"RUNNING", "FAILED", "CANCELLED"}
          \/ task.state = "RUNNING" /\ st \in TerminalStates
       /\ task' = TaskStatus(st)
  /\ UNCHANGED <<pc, exc, loopVars, exports, stdout, failed_tasks, sample,
                 args, ret, fetchVars>>

----------------------------------------------------------------------------
(* Specifications *)

InitMain ==
  /\ Idle
  /\ pc = "while"
  /\ args = NoArgs

\* The script as it is written.  The call of line 51 raises in every run (the
\* fetcher is called with one positional argument too few), so the statements
\* after it are never entered.
NextProgram ==
  \/ LoopWhile
  \/ GetRandomCollections

SpecProgram == InitMain /\ [][NextProgram]_vars

\* The sampling loop of lines 50-70 for every dictionary the return statement
\* of get_random_collections can build from two results of the fetcher.
NextLoop ==
  \/ LoopWhile
  \/ GetRandomCollectionsReturns
  \/ LoopValidate
  \/ LoopReadId
  \/ LoopCheckId
  \/ LoopFor
  \/ LoopAdd
  \/ ExportStart
  \/ MonitorActive
  \/ MonitorStatus
  \/ MonitorSleep
  \/ ExportReturn
  \/ ExportRaise
  \/ TaskAdvance

SpecLoop == InitMain /\ [][NextLoop]_vars

\* The statements of the script and of the two routines of utils.py it calls:
\* the interpreter runs the next statement whenever there is one.
ProgramStep ==
  \/ LoopWhile
  \/ GetRandomCollectionsReturns
  \/ LoopValidate
  \/ LoopReadId
  \/ LoopCheckId
  \/ LoopFor
  \/ LoopAdd
  \/ ExportStart
  \/ MonitorActive
  \/ MonitorStatus
  \/ MonitorSleep
  \/ ExportReturn

\* line 51 returning a bundle that validate_image accepts and whose first-VV
\* identifier is not in ids.
AcceptNew ==
  /\ GetRandomCollectionsReturns
  /\ validate_image(images_dict'.first_vh, images_dict'.collection_vv,
                    images_dict'.collection_vh, images_dict'.mean_vh).ret = "True"
  /\ images_dict'.first_vv.index.kind = "number"
  /\ images_dict'.first_vv.index.v \notin ids

\* The export service bringing the task to a terminal state.
TaskTerminates ==
  /\ TaskAdvance
  /\ task'.state \in TerminalStates

\* The sampling loop where the interpreter keeps running, every export task
\* ends, and sampling again and again eventually gives an accepted bundle
\* with a new identifier.
SpecLoopFair ==
  /\ SpecLoop
  /\ WF_vars(ProgramStep)
  /\ WF_vars(TaskTerminates)
  /\ SF_vars(AcceptNew)

----------------------------------------------------------------------------
(* Claims *)

ExportPhase == {"for", "export_image", "mon_active", "mon_status", "mon_sleep",
                "export_return", "add"}

\* The identifiers for which at least one export was started.
ExportedIds == {exports[n].id : n \in 1..Len(exports)}

\* The file names under which exports were started for identifier id.
FileNamesOf(id) == {exports[n].file_name : n \in {m \in 1..Len(exports) : exports[m].id = id}}

\* C1: an accepted bundle whose first-VV identifier is already in ids is
\* dropped: the step that finds the duplicate starts no export and leaves ids
\* and current_image as they are; an export is only ever in progress for an
\* identifier not in ids, and no identifier has exports under two file names
\* or more than six exports.
C1_DuplicateDiscarded ==
  /\ [][(pc = "check_id" /\ image_id \in ids) =>
          (/\ pc' = "while"
           /\ exports' = exports
           /\ ids' = ids
           /\ current_image' = current_image)]_vars
  /\ [](pc \in ExportPhase => image_id \notin ids)
  /\ [](\A id \in ExportedIds :
          /\ Cardinality(FileNamesOf(id)) = 1
          /\ Cardinality({n \in 1..Len(exports) : exports[n].id = id}) <= 6)

\* C1 witness: an iteration has ended without printing anything, with a
\* bundle whose identifier was exported in an earlier iteration.
C1_Witness ==
  /\ pc = "while"
  /\ stdout = <<>>
  /\ current_image = 1
  /\ Len(exports) = 6
  /\ images_dict # None
  /\ images_dict.first_vv # None
  /\ images_dict.first_vv.index = Number(image_id)
  /\ image_id \in ids

\* C2: the run ends only with current_image equal to the target.
C2_RunEndsAtTarget ==
  pc \in {"done", "raised"} => current_image = number_images

\* The six exports of a batch in the order of the claim: key, folder, and the
\* polarisation and statistic of the image exported.
C3_Order ==
  << <<"first_vv", "SAR VV", "VV", "first">>,
     <<"first_vh", "SAR VH", "VH", "first">>,
     <<"mean_vv", "GT MEAN VV", "VV", "mean">>,
     <<"mean_vh", "GT MEAN VH", "VH", "mean">>,
     <<"median_vv", "GT MEDIAN VV", "VV", "median">>,
     <<"median_vh", "GT MEDIAN VH", "VH", "median">> >>

\* C3: the exports started come in batches of six in the fixed order, the
\* b-th batch under file name b for one identifier; a task is started only
\* when the one before it is terminal; the number of exports started follows
\* the position in the batch, and ids and current_image change only at the
\* end of a complete batch, together.
C3_SixExportsInOrder ==
  /\ [](\A n \in 1..Len(exports) :
          LET b == (n - 1) \div 6
              k == ((n - 1) % 6) + 1
          IN  /\ exports[n].key = C3_Order[k][1]
              /\ exports[n].folder = C3_Order[k][2]
              /\ exports[n].pol = C3_Order[k][3]
              /\ exports[n].stat = C3_Order[k][4]
              /\ exports[n].file_name = <<b + 1>>
              /\ exports[n].id = exports[6 * b + 1].id)
  /\ [](/\ pc \in {"for", "export_image"} =>
             Len(exports) = 6 * current_image + key_i - 1
        /\ pc \in {"mon_active", "mon_status", "mon_sleep", "export_return"} =>
             Len(exports) = 6 * current_image + key_i
        /\ pc = "add" => Len(exports) = 6 * (current_image + 1)
        /\ pc \in {"while", "get_random_collections", "validate", "read_id",
                   "check_id", "done"} =>
             Len(exports) = 6 * current_image)
  /\ [][exports' # exports =>
          /\ task.state \in {"NONE", "COMPLETED", "FAILED", "CANCELLED"}
          /\ Len(exports') = Len(exports) + 1]_vars
  /\ [][(ids' # ids \/ current_image' # current_image) =>
          /\ pc = "add"
          /\ Len(exports) = 6 * (current_image + 1)
          /\ task.state \in {"COMPLETED", "FAILED", "CANCELLED"}
          /\ ids' = ids \cup {image_id}
          /\ current_image' = current_image + 1]_vars

\* C3 witness: the six exports of the second accepted image have returned
\* and the identifier is about to be added.
C3_Witness ==
  /\ pc = "add"
  /\ current_image = 1
  /\ Len(exports) = 12
  /\ exports[12].file_name = <<2>>
  /\ image_id \notin ids

\* C4: with both collections present and a VV count c, validate_image returns
\* False when c < 9 or c > 12 and, given a VH mean of at least -20.0, True for
\* 9 <= c <= 12; replacing the VH collection by any other leaves the result
\* as it is.
C4_CountBand ==
  (/\ pc = "returned"
   /\ args.collection_vv # None
   /\ args.collection_vh # None
   /\ args.collection_vv.size.kind = "number") =>
    LET c == args.collection_vv.size.v IN
      /\ (c < 9 \/ c > 12) => (ret.ret = "False" /\ ret.exc = "none")
      /\ (/\ c >= 9
          /\ c <= 12
          /\ args.first_vh # None
          /\ args.average_vh # None
          /\ args.average_vh.vh_mean.kind = "number"
          /\ args.average_vh.vh_mean.v >= -200) =>
           (ret.ret = "True" /\ ret.exc = "none")
      /\ \A other \in CollectionVHs \ {None} :
           validate_image(args.first_vh, args.collection_vv, other,
                          args.average_vh) = ret

\* C4 witness: a count of 12 accepted although the size request of the VH
\* collection would fail.
C4_Witness ==
  /\ pc = "returned"
  /\ args.collection_vv = Collection("VV", Number(12))
  /\ args.collection_vh = Collection("VH", EEError)
  /\ ret.ret = "True"

\* C5: with both collections present and a VV count in 9..12, validate_image
\* returns False for a VH mean below -20.0 and True for a VH mean of -20.0 or
\* more.
C5_WaterThreshold ==
  (/\ pc = "returned"
   /\ args.collection_vv # None
   /\ args.collection_vh # None
   /\ args.collection_vv.size.kind = "number"
   /\ args.collection_vv.size.v >= 9
   /\ args.collection_vv.size.v <= 12
   /\ args.first_vh # None
   /\ args.average_vh # None
   /\ args.average_vh.vh_mean.kind = "number") =>
    LET m == args.average_vh.vh_mean.v IN
      /\ ret.exc = "none"
      /\ m < -200 => ret.ret = "False"
      /\ m >= -200 => ret.ret = "True"

\* C5 witness: a mean of exactly -20.0 accepted.
C5_Witness ==
  /\ pc = "returned"
  /\ args.average_vh # None
  /\ args.average_vh.vh_mean = Number(-200)
  /\ ret.ret = "True"

\* C6: when either collection is None, validate_image returns False without
\* raising and without a platform request, whatever the other arguments.
C6_NullBundle ==
  (pc = "returned" /\ (args.collection_vv = None \/ args.collection_vh = None)) =>
    /\ ret.ret = "False"
    /\ ret.exc = "none"
    /\ ret.queries = <<>>

\* C6 witness: only the VH collection is None, first_vh and average_vh are
\* None too, and the call has returned False.
C6_Witness ==
  /\ pc = "returned"
  /\ args.collection_vv = Collection("VV", Number(10))
  /\ args.collection_vh = None
  /\ args.first_vh = None
  /\ args.average_vh = None
  /\ ret.ret = "False"

\* C7: no exception leaves the fetcher; every failure raised in it reaches
\* the handler, which returns four Nones; what is returned is four Nones or
\* four values none of which is None.
C7_FailureSwallowed ==
  /\ [](pc # "raised")
  /\ [](pc = "returned" =>
          (ret = FourNones \/ \A i \in 1..4 : ret[i] # None))
  /\ [][(exc = "none" /\ exc' # "none") => pc' = "fetch_except"]_vars
  /\ [][pc = "fetch_except" =>
          (pc' = "returned" /\ ret' = FourNones /\ exc' = "none")]_vars

\* C7 witness: the dimension request failed in the second round of the
\* growth loop and the four Nones were returned.
C7_Witness ==
  /\ pc = "returned"
  /\ ret = FourNones
  /\ args.dim > 1
  /\ roi_expansion_factor = 1

\* C8: a call of get_random_collections returns normally, after one fetch for
\* VV and then one for VH that both receive the sampled dates and coordinates
\* in start, end, latitude and longitude, and the loop goes on to validate
\* the dictionary.
C8_ReturnsDictionary ==
  sample # None =>
    /\ ret.exc = "none"
    /\ pc # "raised"
    /\ Len(ret.fetches) = 2
    /\ \A i \in 1..2 :
         /\ ret.fetches[i].polarization = <<"VV", "VH">>[i]
         /\ ret.fetches[i].start = start_date(sample)
         /\ ret.fetches[i].end = end_date(sample)
         /\ ret.fetches[i].latitude = sample.latitude
         /\ ret.fetches[i].longitude = sample.longitude
    /\ images_dict # None

\* The bundles the claim says are rejected: a collection missing, a VV count
\* outside 9..12, or a VH mean below -20.0.
C9_Rejected(b) ==
  \/ b.collection_vv = None
  \/ b.collection_vh = None
  \/ /\ b.collection_vv.size.kind = "number"
     /\ (b.collection_vv.size.v < 9 \/ b.collection_vv.size.v > 12)
  \/ /\ b.collection_vv.size.kind = "number"
     /\ b.collection_vv.size.v >= 9
     /\ b.collection_vv.size.v <= 12
     /\ b.mean_vh.vh_mean.kind = "number"
     /\ b.mean_vh.vh_mean.v < -200

\* C9: validating a rejected bundle raises nothing, reads no identifier,
\* starts no export, leaves ids and current_image as they are and leads back
\* to the loop condition, from where a target not yet reached leads to a new
\* call of get_random_collections.
C9_RejectionHarmless ==
  /\ [][(pc = "validate" /\ C9_Rejected(images_dict)) =>
          (/\ pc' = "while"
           /\ exc' = "none"
           /\ image_id' = image_id
           /\ exports' = exports
           /\ ids' = ids
           /\ current_image' = current_image)]_vars
  /\ [][(pc = "while" /\ current_image < number_images) =>
          pc' = "get_random_collections"]_vars

\* C9 witness: after one accepted image a bundle has been rejected for its
\* count and the loop is back at its condition.
C9_Witness ==
  /\ pc = "while"
  /\ stdout = <<"There are not enough images in the collection">>
  /\ current_image = 1
  /\ Len(exports) = 6
  /\ Cardinality(ids) = 1

\* C10: with the task FAILED or CANCELLED export_image can return, and its
\* return goes on to the next artifact without starting anything or touching
\* ids and current_image; no artifact of an image is started twice; at the
\* end of the batch the six artifacts have each been started once and the
\* identifier is added and the counter incremented, whatever number of tasks
\* failed.
C10_FailedExportTolerated ==
  /\ []((pc = "export_return" /\ task.state \in {"FAILED", "CANCELLED"}) =>
          ENABLED (ExportReturn /\ pc' = "for"))
  /\ [][(pc = "export_return" /\ task.state \in {"FAILED", "CANCELLED"}
           /\ pc' # "raised") =>
          (/\ pc' = "for"
           /\ key_i' = key_i + 1
           /\ exports' = exports
           /\ ids' = ids
           /\ current_image' = current_image)]_vars
  /\ [](\A m, n \in 1..Len(exports) :
          (exports[m].file_name = exports[n].file_name
             /\ exports[m].key = exports[n].key) => m = n)
  /\ [](pc = "add" =>
          /\ Len(exports) >= 6
          /\ \A k \in 1..6 :
               /\ exports[Len(exports) - 6 + k].key = C3_Order[k][1]
               /\ exports[Len(exports) - 6 + k].id = image_id)
  /\ [][pc = "add" =>
          (/\ ids' = ids \cup {image_id}
           /\ current_image' = current_image + 1
           /\ pc' = "while")]_vars

\* C10 witness: the first image was counted although all six of its tasks
\* ended FAILED or CANCELLED.
C10_Witness ==
  /\ pc = "while"
  /\ failed_tasks = 6
  /\ current_image = 1
  /\ Len(exports) = 6
  /\ ids = {image_id}

\* C11: export_image is at its return statement only with the task in a
\* terminal state, and the status it hands back is that state; a poll of
\* task.active() follows the start of the task or a sleep of one second, and
\* a task found active leads to another poll, never to the return.
C11_BlocksUntilTerminal ==
  /\ [](pc = "export_return" =>
          task.state \in {"COMPLETED", "FAILED", "CANCELLED"})
  /\ [][(pc = "export_return" /\ pc' = "for") =>
          (/\ ret'.ret = task
           /\ ret'.ret.state \in {"COMPLETED", "FAILED", "CANCELLED"})]_vars
  /\ [][(pc # "mon_active" /\ pc' = "mon_active") =>
          pc \in {"export_image", "mon_sleep"}]_vars
  /\ [][(pc = "mon_active" /\ task.state \in {"READY", "RUNNING"}
           /\ pc' # pc) => pc' \in {"mon_status", "raised"}]_vars
  /\ [][(pc = "mon_status" /\ task.state \in {"READY", "RUNNING"}
           /\ pc' # pc) => pc' \in {"mon_sleep", "raised"}]_vars

\* C11 witness: the first export has returned the status of a task that
\* completed.
C11_Witness ==
  /\ pc = "for"
  /\ key_i = 2
  /\ task.state = "COMPLETED"
  /\ ret = [exc |-> "none", ret |-> task]

\* C12: when export_image is at its return statement with the task FAILED or
\* CANCELLED, the call has printed the failure line with the error message
\* of the task.
C12_FailureLogged ==
  (pc = "export_return" /\ task.state \in {"FAILED", "CANCELLED"}) =>
    \E i \in 1..Len(stdout) : stdout[i] = <<"Task failed: ", task.error_message>>

\* The bundle under validation makes validate_image raise: the size request
\* fails, or the count is in the band and the mean request fails or answers
\* null.
C13_ValidateRaises ==
  /\ pc = "validate"
  /\ images_dict.collection_vv # None
  /\ images_dict.collection_vh # None
  /\ \/ images_dict.collection_vv.size.kind = "error"
     \/ /\ images_dict.collection_vv.size.kind = "number"
        /\ images_dict.collection_vv.size.v \in 9..12
        /\ images_dict.mean_vh # None
        /\ images_dict.mean_vh.vh_mean.kind \in {"error", "null"}

\* C13: an exception raised in validate_image, in the read of the identifier
\* or in export_image ends the run: the step that raises leaves ids and
\* current_image as they were, nothing runs after it, the identifier of the
\* image in progress is not in ids, and a bundle that makes validate_image
\* raise is not resampled.
C13_ExceptionEndsRun ==
  /\ [][exc' # exc =>
          (/\ exc = "none"
           /\ pc' = "raised"
           /\ pc \in {"validate", "read_id", "export_image", "mon_active",
                      "mon_status", "export_return"}
           /\ ids' = ids
           /\ current_image' = current_image
           /\ exports' = exports)]_vars
  /\ [][C13_ValidateRaises => pc' = "raised"]_vars
  /\ [][(pc = "read_id" /\ images_dict.first_vv.index.kind = "error")
          => pc' = "raised"]_vars
  /\ [][pc # "raised"]_vars
  /\ []((pc = "raised" /\ Len(exports) > 6 * current_image) =>
          (image_id \notin ids /\ Cardinality(ids) = current_image))

\* C13 witness: a platform request of the fourth export of the first image
\* raised: three artifacts are submitted, ids is empty and current_image 0.
C13_Witness ==
  /\ pc = "raised"
  /\ exc = "EEException"
  /\ Len(exports) = 3
  /\ current_image = 0
  /\ ids = {}

\* C14: round k of the growth loop (k from 0) uses the buffer
\* (dim + k) * 10 / 2 and is made only while every dimension reported so far
\* is below dim; a bundle is returned from the first round whose reported
\* dimension reaches dim, and its first, mean and median images are clipped
\* to the region of that round.
C14_GrowthLoopRegion ==
  /\ [][pc = "fetch_enter" => roi_expansion_factor' = 0]_vars
  /\ [][(pc = "fetch_body" /\ pc' = "fetch_while") =>
          (/\ dimensions < args.dim
           /\ roi' = 5 * (args.dim + roi_expansion_factor)
           /\ roi_expansion_factor' = roi_expansion_factor + 1)]_vars
  /\ [][(pc = "fetch_while" /\ dimensions >= args.dim) =>
          (pc' = "fetch_return" /\ roi' = roi)]_vars
  /\ []((pc = "returned" /\ ret # <<None, None, None, None>>) =>
          (/\ args.dim > 1
           /\ dimensions >= args.dim
           /\ roi_expansion_factor >= 1
           /\ roi = 5 * (args.dim + roi_expansion_factor - 1)
           /\ \A i \in 1..3 : ret[i].type = "Image" /\ ret[i].roi = roi
           /\ <<ret[1].stat, ret[2].stat, ret[3].stat>> =
                <<"first", "mean", "median">>))

\* C14 witness: dim 3; round 0 reported less than 3, round 1 reported at
\* least 3, and the bundle returned is clipped to the buffer (3 + 1) * 10 / 2.
C14_Witness ==
  /\ pc = "returned"
  /\ args.dim = 3
  /\ roi_expansion_factor = 2
  /\ ret # <<None, None, None, None>>
  /\ ret[1].roi = 20
  /\ ret[3].roi = 20

\* C15: the growth loop has no bound of its own: whatever the number of rounds
\* made, a dimension below dim leads to another round; the loop is left for
\* the return statement only with a dimension of at least dim, and for the
\* except clause only by an exception of the round's request; the routine
\* returns only from one of the two.
C15_GrowthLoopUnbounded ==
  /\ [][(pc = "fetch_while" /\ dimensions < args.dim) =>
          pc' = "fetch_body"]_vars
  /\ [][(pc = "fetch_while" /\ pc' = "fetch_return") =>
          dimensions >= args.dim]_vars
  /\ [][(pc = "fetch_body" /\ pc' # pc) =>
          \/ pc' = "fetch_while" /\ exc' = "none"
          \/ /\ pc' = "fetch_except"
             /\ exc' \in {"EEException", "IndexError", "KeyError"}]_vars
  /\ [][(pc # "returned" /\ pc' = "returned") =>
          \/ pc = "fetch_return" /\ dimensions >= args.dim
          \/ pc = "fetch_except" /\ ret' = <<None, None, None, None>>]_vars
  /\ [](pc \in {"fetch_while", "fetch_body"} => exc = "none")

\* C15 witness: every round the model follows has reported a dimension below
\* dim, and the routine is in the loop body again.
C15_Witness ==
  /\ pc = "fetch_body"
  /\ roi_expansion_factor = MaxExpansion
  /\ dimensions < args.dim
  /\ exc = "none"

\* C20: called with dim <= 1 the routine never enters the body of the growth
\* loop and issues no platform request (the collection is never built and the
\* expansion factor stays 0); the return statement raises on the unbound
\* collection, and the routine returns four None.
C20_DimAtMostOne ==
  /\ [](args.dim <= 1 =>
          (/\ pc \notin {"fetch_body", "raised"}
           /\ roi_expansion_factor = 0
           /\ sentinel_1_collection = [type |-> "unbound"]
           /\ (pc = "fetch_except" => exc = "UnboundLocalError")
           /\ (pc = "returned" => ret = <<None, None, None, None>>)))
  /\ [][(args.dim <= 1 /\ pc = "fetch_while") => pc' = "fetch_return"]_vars
  /\ [][(args.dim <= 1 /\ pc = "fetch_return") => pc' = "fetch_except"]_vars
  /\ [][(args.dim <= 1 /\ pc = "fetch_except") => pc' = "returned"]_vars

\* C20 witness: the routine has returned four None for dim = 1 without a
\* round of the loop.
C20_Witness ==
  /\ args.dim = 1
  /\ pc = "returned"
  /\ ret = <<None, None, None, None>>
  /\ roi_expansion_factor = 0
  /\ sentinel_1_collection = Unbound

\* Days of month m of year y in the Gregorian calendar.
C17_DaysIn(y, m) ==
  IF m \in {4, 6, 9, 11} THEN 30
  ELSE IF m # 2 THEN 31
  ELSE IF y % 4 = 0 /\ (y % 100 # 0 \/ y % 400 = 0) THEN 29
  ELSE 28

\* C17: for every draw the start date has a year in 2017..2023, a month in
\* 1..6 and a day in 1..28; the end date has the same year and day and the
\* month six later, in 7..12; both are dates of the calendar.
C17_DatesValid ==
  sample # None =>
    LET s == start_date(sample)
        e == end_date(sample)
    IN  /\ s.year \in 2017..2023
        /\ s.month \in 1..6
        /\ s.day \in 1..28
        /\ e.year = s.year
        /\ e.day = s.day
        /\ e.month = s.month + 6
        /\ e.month \in 7..12
        /\ s.day <= C17_DaysIn(s.year, s.month)
        /\ e.day <= C17_DaysIn(e.year, e.month)

\* C17 witness: the draw 2023-2-28, the last day of its month, with the end
\* date 2023-8-28.
C17_Witness ==
  /\ sample # None
  /\ start_date(sample) = [year |-> 2023, month |-> 2, day |-> 28]
  /\ end_date(sample)   = [year |-> 2023, month |-> 8, day |-> 28]

\* C18: whenever the loop condition is evaluated, ids has current_image
\* elements, current_image is at most the target, and six times
\* current_image exports have been submitted; no step removes an identifier
\* from ids.
C18_LoopInvariant ==
  /\ [](pc = "while" =>
          (/\ Cardinality(ids) = current_image
           /\ current_image <= number_images
           /\ Len(exports) = 6 * current_image))
  /\ [][ids \subseteq ids']_vars

\* C18 witness: the loop condition is evaluated after the second image, with
\* two identifiers recorded and twelve exports submitted.
C18_Witness ==
  /\ pc = "while"
  /\ current_image = 2
  /\ Cardinality(ids) = 2
  /\ Len(exports) = 12

\* C19: the n-th export submitted carries the file name of the number of its
\* image, (n - 1) \div 6 + 1; no two exports share folder and file name; when
\* the loop condition is evaluated the file names used are those of
\* 1..current_image, each in six folders.
C19_NoDestinationCollision ==
  /\ \A n \in 1..Len(exports) :
       exports[n].file_name = <<((n - 1) \div 6) + 1>>
  /\ \A m, n \in 1..Len(exports) :
       (m # n) =>
         <<exports[m].folder, exports[m].file_name>> #
         <<exports[n].folder, exports[n].file_name>>
  /\ pc = "while" =>
       /\ {exports[n].file_name : n \in 1..Len(exports)} =
            {<<k>> : k \in 1..current_image}
       /\ \A k \in 1..current_image :
            Cardinality({exports[n].folder :
                           n \in {m \in 1..Len(exports) :
                                    exports[m].file_name = <<k>>}}) = 6

\* C19 witness: two images are exported, the second after a failed task in
\* its batch, under the file names 1 and 2.
C19_Witness ==
  /\ pc = "while"
  /\ current_image = 2
  /\ failed_tasks >= 1
  /\ exports[6].file_name = <<1>>
  /\ exports[7].file_name = <<2>>
  /\ exports[7].folder = exports[1].folder

\* C16: the loop counts no iterations: a rejected or duplicate bundle brings
\* the run back to the loop condition with current_image, ids and the exports
\* as they were, below the target, and the condition then samples again.
\* When accepted bundles with new identifiers keep occurring and every export
\* task ends, the run ends: by an exception, or at the end of the loop with
\* current_image equal to the target.
C16_LoopTermination ==
  /\ [][(pc \in {"validate", "check_id"} /\ pc' = "while") =>
          (/\ current_image' = current_image
           /\ current_image < number_images
           /\ ids' = ids
           /\ exports' = exports)]_vars
  /\ [][(pc = "while" /\ current_image < number_images) =>
          pc' = "get_random_collections"]_vars
  /\ [](pc = "done" => current_image = number_images)
  /\ <>(pc = "raised" \/ (pc = "done" /\ current_image = number_images))

\* C16 witness: the loop has ended with the target number of images, each with
\* its six exports.
C16_Witness ==
  /\ pc = "done"
  /\ exc = "none"
  /\ current_image = number_images
  /\ Len(exports) = 6 * number_images

====
